---- MODULE Spec2Model ----
(***************************************************************************)
(* A model of the PYNEUT transport kernel:                                 *)
(*   - geometry.py            nearest-boundary resolution over CSG regions *)
(*   - cross_section_read.py  cross-section lookup and interpolation       *)
(*   - physics.py             free-gas elastic / inelastic kinematics      *)
(* Each component has its own specification over one set of variables:    *)
(* SpecGeom (nearest boundary), SpecXS (one reaction over all grids),      *)
(* SpecXSTotal (all reader calls over sound and damaged files) and         *)
(* SpecPhys (scattering); the variables of the other components stay at    *)
(* their idle values.                                                      *)
(***************************************************************************)
EXTENDS Integers, Sequences, FiniteSets, TLC

VARIABLES
    \* ---- geometry.calculate_nearest_boundary ----
    gpc,               \* position in the call: "idle","regions","surfaces","done"
    state,             \* the particle position <<x, y, z>>
    dir,               \* the direction <<u, v, w>>
    regions,           \* the list of top-level regions passed in
    ri,                \* index of the region being iterated (1-based)
    primitives,        \* flattened primitives of regions[ri]
    si,                \* index of the primitive being iterated (1-based)
    nearest_distance,
    nearest_point,
    nearest_region,
    nearest_surface,
    gret,              \* the returned triple, once gpc = "done"
    \* ---- cross_section_read.CrossSectionReader ----
    xfile,             \* the HDF5 file <base>/neutron/Pb208.h5 (or its absence)
    xcall,             \* the last call made on the reader and its arguments
    xret,              \* what that call returned or raised
    \* ---- physics.elastic_scattering / inelastic_scattering ----
    pcall,             \* the last scattering call: its arguments and the streams it started from
    pret               \* what it returned and how far it advanced the streams

gvars == <<gpc, state, dir, regions, ri, primitives, si, nearest_distance,
           nearest_point, nearest_region, nearest_surface, gret>>

xvars == <<xfile, xcall, xret>>

pvars == <<pcall, pret>>

vars == <<gvars, xvars, pvars>>

(***************************************************************************)
(* Values.                                                                 *)
(***************************************************************************)
\* Python's None / float("inf") / a number, as one record shape.
None == [k |-> "none", v |-> 0]
Inf == [k |-> "inf", v |-> 0]
Num(n) == [k |-> "num", v |-> n]

\* Python's  a < b  and  a >= 0  on numbers that may be float("inf").
Lt(a, b) ==
    CASE a.k = "inf" -> FALSE
      [] b.k = "inf" -> TRUE
      [] OTHER -> a.v < b.v

Ge0(a) == a.k = "inf" \/ a.v >= 0

NoPoint == <<>>
NoRegion == [kind |-> "noregion"]
NoSurface == [kind |-> "nosurface"]

(***************************************************************************)
(* medium.py (Region, Box and the primitive surfaces) is not among the     *)
(* sources at hand.  What is modelled of it follows the specification and  *)
(* tests/test_nested.py: a primitive surface exposes a signed              *)
(* nearest-intersection distance and a containment test; a Region is a     *)
(* boolean composition of surfaces and nested regions with a containment   *)
(* test; a Box is itself a Region (the test's "Region inside a Region"),   *)
(* the intersection of the six half-spaces of its faces.                   *)
(***************************************************************************)
\* A face plane  p[axis] = c ; side = 1: inside is p[axis] <= c,
\* side = -1: inside is p[axis] >= c.
Plane(n, a, c, side) == [kind |-> "plane", name |-> n, axis |-> a, c |-> c, side |-> side]

Region(n, op, surfs) ==
    [kind |-> "region", name |-> n, operation |-> op, surfaces |-> surfs]

Box(n, xmin, xmax, ymin, ymax, zmin, zmax) ==
    Region(n, "intersection",
           <<Plane("xmin", 1, xmin, -1), Plane("xmax", 1, xmax, 1),
             Plane("ymin", 2, ymin, -1), Plane("ymax", 2, ymax, 1),
             Plane("zmin", 3, zmin, -1), Plane("zmax", 3, zmax, 1)>>)

Along(p, d, t) == <<p[1] + t * d[1], p[2] + t * d[2], p[3] + t * d[3]>>

\* The signed distance along the ray to the plane (negative when the plane
\* lies behind), None when the ray is parallel to it.  Direction components
\* are -1, 0 or 1, so (c - p)/d = (c - p)*d when d # 0.
nearest_surface_method(s, p, d) ==
    IF d[s.axis] = 0 THEN None ELSE Num((s.c - p[s.axis]) * d[s.axis])

RECURSIVE contains(_, _)
contains(s, p) ==
    CASE s.kind = "plane" -> s.side * p[s.axis] <= s.side * s.c
      [] s.kind = "region" ->
            IF s.operation = "union"
            THEN \E i \in 1..Len(s.surfaces) : contains(s.surfaces[i], p)
            ELSE \A i \in 1..Len(s.surfaces) : contains(s.surfaces[i], p)

(***************************************************************************)
(* geometry.py                                                             *)
(***************************************************************************)
\* A flattening that keeps the primitives at the top level only and does not
\* descend into nested regions.
get_primitive_surfaces_shallow(surface_list) ==
    SelectSeq(surface_list, LAMBDA surface : surface.kind # "region")

RECURSIVE get_primitive_surfaces(_)
get_primitive_surfaces(surface_list) ==
    IF surface_list = <<>> THEN <<>>
    ELSE LET surface == Head(surface_list)
             rest == get_primitive_surfaces(Tail(surface_list))
         IN IF surface.kind = "region"
            THEN get_primitive_surfaces(surface.surfaces) \o rest
            ELSE <<surface>> \o rest

\* The inner-loop step with the containment test made on the primitive
\* instead of on the top-level region.
VisitSurfaceUpdate_primitive_test(region, surface, p, d, nd, np, nr, ns) ==
    LET distance == nearest_surface_method(surface, p, d)
    IN IF distance # None /\ Ge0(distance) /\ Lt(distance, nd)
          /\ contains(surface, Along(p, d, distance.v))
       THEN <<distance, Along(p, d, distance.v), region, surface>>
       ELSE <<nd, np, nr, ns>>

\* The inner-loop step without the forward-only validation: a surface behind
\* the particle is accepted.
VisitSurfaceUpdate_no_forward_test(region, surface, p, d, nd, np, nr, ns) ==
    LET distance == nearest_surface_method(surface, p, d)
    IN IF distance # None /\ Lt(distance, nd)
          /\ contains(region, Along(p, d, distance.v))
       THEN <<distance, Along(p, d, distance.v), region, surface>>
       ELSE <<nd, np, nr, ns>>

\* The inner-loop step where a candidate at an equal distance also replaces
\* the current one.
VisitSurfaceUpdate_replace_on_equal(region, surface, p, d, nd, np, nr, ns) ==
    LET distance == nearest_surface_method(surface, p, d)
    IN IF distance # None /\ Ge0(distance) /\ ~Lt(nd, distance)
          /\ contains(region, Along(p, d, distance.v))
       THEN <<distance, Along(p, d, distance.v), region, surface>>
       ELSE <<nd, np, nr, ns>>

\* One iteration of the inner loop (geometry.py lines 63-86) on `surface` of
\* `region`: the new <<nearest_distance, nearest_point, nearest_region,
\* nearest_surface>>.
VisitSurfaceUpdate(region, surface, p, d, nd, np, nr, ns) ==
    LET distance == nearest_surface_method(surface, p, d)
    IN IF distance # None /\ Ge0(distance)
       THEN IF Lt(distance, nd)
            THEN LET candidate_point == Along(p, d, distance.v)
                 IN IF contains(region, candidate_point)
                    THEN <<distance, candidate_point, region, surface>>
                    ELSE <<nd, np, nr, ns>>
            ELSE <<nd, np, nr, ns>>
       ELSE <<nd, np, nr, ns>>

\* geometry.py lines 88-92
NearestReturn(np, nr, nd) ==
    IF np = NoPoint THEN <<NoPoint, NoRegion, Inf>> ELSE <<np, nr, nd>>

\* The inner loop (lines 63-86) over the flattened primitives of one region,
\* from the running <<nearest_distance, nearest_point, nearest_region,
\* nearest_surface>>.
RECURSIVE ScanSurfaces(_, _, _, _, _)
ScanSurfaces(region, prims, p, d, acc) ==
    IF prims = <<>> THEN acc
    ELSE ScanSurfaces(region, Tail(prims), p, d,
                      VisitSurfaceUpdate(region, Head(prims), p, d,
                                         acc[1], acc[2], acc[3], acc[4]))

\* The outer loop (lines 57-61) over the regions list.
RECURSIVE ScanRegions(_, _, _, _)
ScanRegions(rs, p, d, acc) ==
    IF rs = <<>> THEN acc
    ELSE ScanRegions(Tail(rs), p, d,
                     ScanSurfaces(Head(rs), get_primitive_surfaces(Head(rs).surfaces),
                                  p, d, acc))

\* The whole call as a function of its arguments (lines 49-92).
calculate_nearest_boundary(p, rs, d) ==
    LET acc == ScanRegions(rs, p, d, <<Inf, NoPoint, NoRegion, NoSurface>>)
    IN NearestReturn(acc[2], acc[3], acc[1])

(***************************************************************************)
(* The geometry the calls are made on.                                     *)
(***************************************************************************)
MaxCoord == 3
MaxRegions == 2

BoxA == Box("A", 0, 2, 0, 2, 0, 2)
BoxB == Box("B", 1, MaxCoord, 0, 2, 0, 2)
PlaneQ == Plane("Q", 2, 1, 1)

Wrapper == Region("Wrapper", "union", <<BoxA>>)
Pair == Region("Pair", "union", <<BoxA, BoxB>>)
Overlap == Region("Overlap", "intersection", <<BoxA, BoxB>>)
Deep == Region("Deep", "intersection",
               <<Region("Mid", "union", <<Region("Core", "union", <<BoxB>>)>>), PlaneQ>>)
Empty == Region("Empty", "union", <<>>)

RegionCatalog == {Wrapper, Pair, Overlap, Deep, Empty}

RegionLists == UNION {[1..n -> RegionCatalog] : n \in 0..MaxRegions}

Positions == (-1..MaxCoord) \X {1, 3} \X {1}
Directions == ({-1, 0, 1} \X {-1, 0, 1} \X {0}) \ {<<0, 0, 0>>}

(***************************************************************************)
(* calculate_nearest_boundary as a state machine.                          *)
(***************************************************************************)
GeomIdle ==
    /\ gpc = "idle"
    /\ state = <<0, 0, 0>>
    /\ dir = <<1, 0, 0>>
    /\ regions = <<>>
    /\ ri = 1
    /\ primitives = <<>>
    /\ si = 1
    /\ nearest_distance = Inf
    /\ nearest_point = NoPoint
    /\ nearest_region = NoRegion
    /\ nearest_surface = NoSurface
    /\ gret = <<>>

\* lines 49-54: the call, with its arguments
CallNearest ==
    /\ gpc = "idle"
    /\ \E p \in Positions, d \in Directions, rs \in RegionLists :
        /\ state' = p
        /\ dir' = d
        /\ regions' = rs
    /\ nearest_distance' = Inf
    /\ nearest_point' = NoPoint
    /\ nearest_region' = NoRegion
    /\ nearest_surface' = NoSurface
    /\ ri' = 1
    /\ gpc' = "regions"
    /\ UNCHANGED <<primitives, si, gret>>
    /\ UNCHANGED <<xvars, pvars>>

\* lines 57-61: take the next region and flatten it
EnterRegion ==
    /\ gpc = "regions"
    /\ ri <= Len(regions)
    /\ primitives' = get_primitive_surfaces(regions[ri].surfaces)
    /\ si' = 1
    /\ gpc' = "surfaces"
    /\ UNCHANGED <<state, dir, regions, ri, nearest_distance, nearest_point,
                   nearest_region, nearest_surface, gret>>
    /\ UNCHANGED <<xvars, pvars>>

\* lines 63-86: one primitive
VisitSurface ==
    /\ gpc = "surfaces"
    /\ si <= Len(primitives)
    /\ LET upd == VisitSurfaceUpdate(regions[ri], primitives[si], state, dir,
                                     nearest_distance, nearest_point,
                                     nearest_region, nearest_surface)
       IN /\ nearest_distance' = upd[1]
          /\ nearest_point' = upd[2]
          /\ nearest_region' = upd[3]
          /\ nearest_surface' = upd[4]
    /\ si' = si + 1
    /\ UNCHANGED <<gpc, state, dir, regions, ri, primitives, gret>>
    /\ UNCHANGED <<xvars, pvars>>

\* the inner loop is exhausted: back to the outer loop
LeaveRegion ==
    /\ gpc = "surfaces"
    /\ si > Len(primitives)
    /\ ri' = ri + 1
    /\ gpc' = "regions"
    /\ UNCHANGED <<state, dir, regions, primitives, si, nearest_distance,
                   nearest_point, nearest_region, nearest_surface, gret>>
    /\ UNCHANGED <<xvars, pvars>>

\* lines 88-92
ReturnNearest ==
    /\ gpc = "regions"
    /\ ri > Len(regions)
    /\ gret' = NearestReturn(nearest_point, nearest_region, nearest_distance)
    /\ gpc' = "done"
    /\ UNCHANGED <<state, dir, regions, ri, primitives, si, nearest_distance,
                   nearest_point, nearest_region, nearest_surface>>
    /\ UNCHANGED <<xvars, pvars>>

(***************************************************************************)
(* cross_section_read.py                                                   *)
(*                                                                         *)
(* Numbers are exact rationals n/d scaled by a power of ten, 10^e: the     *)
(* table values and energies are integers, an interpolated value is a      *)
(* fraction, and the barns -> cm^2 conversion shifts the exponent.         *)
(***************************************************************************)
Rat(n, d, e) == [n |-> n, d |-> d, e |-> e]
Exact(n) == Rat(n, 1, 0)
Zero == Exact(0)

\* Equality of the numbers denoted (0 is 0 at every exponent).
RatEq(a, b) ==
    IF a.n = 0 \/ b.n = 0 THEN a.n = b.n
    ELSE a.e = b.e /\ a.n * b.d = b.n * a.d

\* a + b, for numbers at one exponent (or 0).
RatAdd(a, b) ==
    CASE a.n = 0 -> b
      [] b.n = 0 -> a
      [] OTHER -> Rat(a.n * b.d + b.n * a.d, a.d * b.d, a.e)

\* What a call returns or raises.
Ok(v) == [tag |-> "ok", val |-> v, exc |-> "", msg |-> <<>>]
Raise(exc, msg) == [tag |-> "raise", val |-> Zero, exc |-> exc, msg |-> msg]

\* Python's  "a b" in str(e)  on a message kept as its words.
HasWords(msg, w1, w2) == \E i \in 1..(Len(msg) - 1) : msg[i] = w1 /\ msg[i + 1] = w2
\* Python's  "reaction" in str(e) : a word that starts with "reaction".
HasReaction(msg) == \E i \in 1..Len(msg) : msg[i] \in {"reaction", "reactions", "reaction_"}

\* Python's sequence[a:b] for 0-based a, b (negative: from the end; clipped).
PyIndex(s, i) ==
    IF i < 0 THEN (IF Len(s) + i < 0 THEN 0 ELSE Len(s) + i)
    ELSE (IF i > Len(s) THEN Len(s) ELSE i)

PySlice(s, a, b) == SubSeq(s, PyIndex(s, a) + 1, PyIndex(s, b))

\* numpy.interp(x, xp, fp) for a scalar x and a non-decreasing xp: the end
\* values outside the grid, the stored value at a grid point, the linear
\* interpolation inside an interval; ValueError on arrays it cannot use.
interp_clamp_zero(x, xp, fp) ==
    IF Len(xp) = 0 THEN Raise("ValueError", <<"array", "of", "sample", "points", "is", "empty">>)
    ELSE IF Len(xp) # Len(fp)
    THEN Raise("ValueError", <<"fp", "and", "xp", "are", "not", "of", "the", "same", "length">>)
    ELSE IF x < xp[1] \/ x > xp[Len(xp)] THEN Ok(Zero)
    ELSE LET j == CHOOSE k \in 1..Len(xp) :
                      xp[k] <= x /\ \A m \in 1..Len(xp) : xp[m] <= x => m <= k
         IN IF j = Len(xp) \/ xp[j] = x THEN Ok(Exact(fp[j]))
            ELSE Ok(Rat(fp[j] * (xp[j + 1] - xp[j]) + (fp[j + 1] - fp[j]) * (x - xp[j]),
                        xp[j + 1] - xp[j], 0))

interp(x, xp, fp) ==
    IF Len(xp) = 0 THEN Raise("ValueError", <<"array", "of", "sample", "points", "is", "empty">>)
    ELSE IF Len(xp) # Len(fp)
    THEN Raise("ValueError", <<"fp", "and", "xp", "are", "not", "of", "the", "same", "length">>)
    ELSE IF x < xp[1] THEN Ok(Exact(fp[1]))
    ELSE IF x > xp[Len(xp)] THEN Ok(Exact(fp[Len(fp)]))
    ELSE LET j == CHOOSE k \in 1..Len(xp) :
                      xp[k] <= x /\ \A m \in 1..Len(xp) : xp[m] <= x => m <= k
         IN IF j = Len(xp) \/ xp[j] = x THEN Ok(Exact(fp[j]))
            ELSE Ok(Rat(fp[j] * (xp[j + 1] - xp[j]) + (fp[j + 1] - fp[j]) * (x - xp[j]),
                        xp[j + 1] - xp[j], 0))

\* ---- the file ----
\* A reaction group <ELEMENT>/reactions/reaction_<MT>/294K: the optional
\* local "energy" dataset, the "xs" dataset and its threshold_idx attribute.
Group(has_energy, energy, has_xs, xs, thr) ==
    [present |-> TRUE, has_energy |-> has_energy, energy |-> energy,
     has_xs |-> has_xs, xs |-> xs, threshold_idx |-> thr]
Absent == [present |-> FALSE, has_energy |-> FALSE, energy |-> <<>>,
           has_xs |-> FALSE, xs |-> <<>>, threshold_idx |-> 0]

\* f"{mt:03}"
mt_str(mt) == <<mt \div 100, (mt \div 10) % 10, mt % 10>>

\* The file: whether it exists, the global grid <ELEMENT>/energy/294K (if
\* present) and the reaction groups by their three-digit code.
File(exists, has_global, global_energy, rx2, rx18, rx102) ==
    [exists |-> exists, has_global |-> has_global, global_energy |-> global_energy,
     reactions |-> [c \in {mt_str(2), mt_str(18), mt_str(102)} |->
                       CASE c = mt_str(2) -> rx2
                         [] c = mt_str(18) -> rx18
                         [] OTHER -> rx102]]

\* reaction_group_path in f
ReactionGroup(f, mt) ==
    IF mt_str(mt) \in DOMAIN f.reactions THEN f.reactions[mt_str(mt)] ELSE Absent

\* str.isalnum() on the element names used here
ElementChars(element) ==
    CASE element = "Pb208" -> <<"P", "b", "2", "0", "8">>
      [] element = "U235" -> <<"U", "2", "3", "5">>
      [] element = "Pb-208" -> <<"P", "b", "-", "2", "0", "8">>
      [] OTHER -> <<>>

AlnumChars == {"P", "b", "U", "0", "2", "3", "5", "8"}

isalnum(element) ==
    /\ Len(ElementChars(element)) > 0
    /\ \A i \in 1..Len(ElementChars(element)) : ElementChars(element)[i] \in AlnumChars

\* os.path.exists(file_path): the store holds the file of Pb208 only
path_exists(f, element) == element = "Pb208" /\ f.exists

\* lines 43-52, CASE A with the range test made with <= and >=
LocalGridLookup_open_ends(rx_group, energy) ==
    IF ~rx_group.has_xs
    THEN Raise("KeyError", <<"Unable", "to", "open", "object", "xs", "doesn't", "exist">>)
    ELSE IF Len(rx_group.energy) = 0
    THEN Raise("IndexError", <<"index", "0", "is", "out", "of", "bounds">>)
    ELSE IF energy <= rx_group.energy[1] \/ energy >= rx_group.energy[Len(rx_group.energy)]
    THEN Ok(Zero)
    ELSE interp(energy, rx_group.energy, rx_group.xs)

\* lines 43-52, CASE A: the reaction's own grid
LocalGridLookup(rx_group, energy) ==
    LET grid_energy == rx_group.energy
        grid_xs == rx_group.xs
    IN IF ~rx_group.has_xs
       THEN Raise("KeyError", <<"Unable", "to", "open", "object", "xs", "doesn't", "exist">>)
       ELSE IF Len(grid_energy) = 0
       THEN Raise("IndexError", <<"index", "0", "is", "out", "of", "bounds">>)
       ELSE IF energy < grid_energy[1] \/ energy > grid_energy[Len(grid_energy)]
       THEN Ok(Zero)
       ELSE interp(energy, grid_energy, grid_xs)

\* lines 65-67: the xs array after the safety check on indices
TruncatedXs(global_energy, xs_data, threshold_idx) ==
    IF threshold_idx + Len(xs_data) > Len(global_energy)
    THEN PySlice(xs_data, 0, Len(global_energy) - threshold_idx)
    ELSE xs_data

\* line 70: the slice of the global grid
RelevantEnergies(global_energy, xs_data, threshold_idx) ==
    PySlice(global_energy, threshold_idx,
            threshold_idx + Len(TruncatedXs(global_energy, xs_data, threshold_idx)))

\* lines 55-75, CASE B: the global grid and the threshold index
GlobalGridLookup(f, element, rx_group, energy) ==
    IF ~f.has_global
    THEN Raise("KeyError", <<"Energy", "data", "path", element, "energy", "294K", "not", "found">>)
    ELSE IF ~rx_group.has_xs
    THEN Raise("KeyError", <<"Unable", "to", "open", "object", "xs", "doesn't", "exist">>)
    ELSE LET global_energy == f.global_energy
             threshold_idx == rx_group.threshold_idx
             xs_data == TruncatedXs(global_energy, rx_group.xs, threshold_idx)
             relevant_energies == RelevantEnergies(global_energy, rx_group.xs, threshold_idx)
         IN IF Len(relevant_energies) = 0
            THEN Raise("IndexError", <<"index", "0", "is", "out", "of", "bounds">>)
            ELSE IF energy < relevant_energies[1] THEN Ok(Zero)
            ELSE interp(energy, relevant_energies, xs_data)

\* lines 36-75: the body of the try block
TryBody(f, element, mt, energy) ==
    LET rx_group == ReactionGroup(f, mt)
    IN IF ~rx_group.present THEN Ok(Zero)
       ELSE IF rx_group.has_energy THEN LocalGridLookup(rx_group, energy)
       ELSE GlobalGridLookup(f, element, rx_group, energy)

\* lines 77-80: the except clause
Handler(r, element, mt) ==
    IF r.tag = "raise" /\ r.exc \in {"OSError", "KeyError", "ValueError"}
    THEN IF HasReaction(r.msg) \/ HasWords(r.msg, "not", "found")
         THEN Ok(Zero)
         ELSE Raise("RuntimeError", <<"Error", "reading", element, "MT", ToString(mt)>> \o r.msg)
    ELSE r

\* lines 14-80
get_cross_section(f, element, mt, energy) ==
    IF ~isalnum(element)
    THEN Raise("ValueError", <<"Invalid", "element", "format">>)
    ELSE IF ~(1 <= mt /\ mt <= 999)
    THEN Raise("ValueError", <<"MT", "number", "must", "be", "between", "1", "and", "999">>)
    ELSE IF ~path_exists(f, element)
    THEN Raise("FileNotFoundError", <<"HDF5", "file", "for", element, "not", "found">>)
    ELSE Handler(TryBody(f, element, mt, energy), element, mt)

\* lines 82-85
calculate_macroscopic_xs(microscopic_xs, number_density) ==
    IF microscopic_xs.n < 0 THEN Zero
    ELSE Rat(microscopic_xs.n * number_density, microscopic_xs.d, microscopic_xs.e - 24)

\* lines 87-89
get_macroscopic_xs(f, element, mt, energy, number_density) ==
    LET microscopic_xs == get_cross_section(f, element, mt, energy)
    IN IF microscopic_xs.tag = "raise" THEN microscopic_xs
       ELSE Ok(calculate_macroscopic_xs(microscopic_xs.val, number_density))

\* lines 91-105 with the fission lookup outside any try block
get_cross_sections_no_try(f, element, energy, number_density) ==
    LET Sigma_s == get_macroscopic_xs(f, element, 2, energy, number_density)
        Sigma_a == get_macroscopic_xs(f, element, 102, energy, number_density)
        Sigma_f == get_macroscopic_xs(f, element, 18, energy, number_density)
    IN CASE Sigma_s.tag = "raise" -> Sigma_s
         [] Sigma_a.tag = "raise" -> Sigma_a
         [] Sigma_f.tag = "raise" -> Sigma_f
         [] OTHER -> Ok(<<Sigma_s.val, Sigma_a.val, Sigma_f.val,
                          RatAdd(RatAdd(Sigma_s.val, Sigma_a.val), Sigma_f.val)>>)

\* lines 91-105
get_cross_sections(f, element, energy, number_density) ==
    LET E_lookup == energy
        Sigma_s == get_macroscopic_xs(f, element, 2, E_lookup, number_density)
        Sigma_a == get_macroscopic_xs(f, element, 102, E_lookup, number_density)
        fission == get_macroscopic_xs(f, element, 18, E_lookup, number_density)
        Sigma_f == IF fission.tag = "raise" THEN Zero ELSE fission.val
    IN CASE Sigma_s.tag = "raise" -> Sigma_s
         [] Sigma_a.tag = "raise" -> Sigma_a
         [] OTHER -> Ok(<<Sigma_s.val, Sigma_a.val, Sigma_f,
                          RatAdd(RatAdd(Sigma_s.val, Sigma_a.val), Sigma_f)>>)

(***************************************************************************)
(* physics.py                                                              *)
(*                                                                         *)
(* Floating point is modelled in fixed point: energies in meV, speeds in   *)
(* units of 10 m/s, cosines and sines in thousandths; a square root is the *)
(* integer square root.  The injected random stream is a periodic sequence *)
(* of draws read from a position; a draw q stands for random() = q/4.  The *)
(* velocity sampler (vt_calc.py, not among the sources at hand) is a       *)
(* periodic sequence of speeds >= 0 read from its own position: its        *)
(* internal draws are its own.                                             *)
(***************************************************************************)
\* Thousandths.
Scale == 1000
\* 2 * eV_to_J / m_n in (10 m/s)^2 per meV.
SpeedSqPerMeV == 1913
\* The 10 eV thermal cutoff, in meV.
ThermalCutoff == 10000

RECURSIVE SqrtSearch(_, _, _)
SqrtSearch(n, lo, hi) ==
    IF lo >= hi THEN lo
    ELSE LET mid == (lo + hi + 1) \div 2
         IN IF mid * mid <= n THEN SqrtSearch(n, mid, hi) ELSE SqrtSearch(n, lo, mid - 1)

\* np.sqrt
Sqrt(n) == SqrtSearch(n, 0, 46340)

\* np.cos(2*pi*q/4), np.sin(2*pi*q/4) in thousandths
Cos2Pi(q) == CASE q = 0 -> Scale [] q = 2 -> -Scale [] OTHER -> 0
Sin2Pi(q) == CASE q = 1 -> Scale [] q = 3 -> -Scale [] OTHER -> 0

Max0(n) == IF n < 0 THEN 0 ELSE n

\* np.dot, np.linalg.norm
Dot(a, b) == a[1] * b[1] + a[2] * b[2] + a[3] * b[3]
Norm(a) == Sqrt(Dot(a, a))

\* The i-th value of a stream: the stream repeats its period.
Draw(stream, i) == stream[((i - 1) % Len(stream)) + 1]

\* The streams' read positions: draws taken from rng, speeds taken from the sampler.
Pos(r, v) == [r |-> r, v |-> v]

\* lines 8-53 with the cutoff test made with >=
get_vectors_and_vcm_cutoff_inclusive(initial_energy, A, sampler, rng, st) ==
    LET v_n == Sqrt(initial_energy * SpeedSqPerMeV)
        sampled == initial_energy < ThermalCutoff
        v_t == IF sampled THEN Draw(sampler, st.v + 1) ELSE 0
        st1 == IF sampled THEN Pos(st.r, st.v + 1) ELSE st
        vec_vn == <<0, 0, v_n>>
        mu_t == 2 * ((Draw(rng, st1.r + 1) * Scale) \div 4) - Scale
        sin_t == Sqrt(Max0(Scale * Scale - mu_t * mu_t))
        vec_vt == IF v_t > 0
                  THEN <<(((v_t * sin_t) \div Scale) * Cos2Pi(Draw(rng, st1.r + 2))) \div Scale,
                         (((v_t * sin_t) \div Scale) * Sin2Pi(Draw(rng, st1.r + 2))) \div Scale,
                         (v_t * mu_t) \div Scale>>
                  ELSE <<0, 0, 0>>
        st2 == IF v_t > 0 THEN Pos(st1.r + 2, st1.v) ELSE st1
        vec_vcm == [a \in 1..3 |-> (vec_vn[a] + A * vec_vt[a]) \div (A + 1)]
    IN [vec_vn |-> vec_vn, vec_vcm |-> vec_vcm,
        vec_Vn |-> [a \in 1..3 |-> vec_vn[a] - vec_vcm[a]], st |-> st2]

\* lines 8-53
get_vectors_and_vcm(initial_energy, A, sampler, rng, st) ==
    LET v_n == Sqrt(initial_energy * SpeedSqPerMeV)
        sampled == ~(initial_energy > ThermalCutoff)
        v_t == IF sampled THEN Draw(sampler, st.v + 1) ELSE 0
        st1 == IF sampled THEN Pos(st.r, st.v + 1) ELSE st
        vec_vn == <<0, 0, v_n>>
        mu_t == 2 * ((Draw(rng, st1.r + 1) * Scale) \div 4) - Scale
        sin_t == Sqrt(Max0(Scale * Scale - mu_t * mu_t))
        vec_vt == IF v_t > 0
                  THEN <<(((v_t * sin_t) \div Scale) * Cos2Pi(Draw(rng, st1.r + 2))) \div Scale,
                         (((v_t * sin_t) \div Scale) * Sin2Pi(Draw(rng, st1.r + 2))) \div Scale,
                         (v_t * mu_t) \div Scale>>
                  ELSE <<0, 0, 0>>
        st2 == IF v_t > 0 THEN Pos(st1.r + 2, st1.v) ELSE st1
        vec_vcm == [a \in 1..3 |-> (vec_vn[a] + A * vec_vt[a]) \div (A + 1)]
    IN [vec_vn |-> vec_vn, vec_vcm |-> vec_vcm,
        vec_Vn |-> [a \in 1..3 |-> vec_vn[a] - vec_vcm[a]], st |-> st2]

\* lines 55-72
scatter_isotropic_cm(vec_Vn, magnitude, rng, st) ==
    LET mu_cm == 2 * ((Draw(rng, st.r + 1) * Scale) \div 4) - Scale
        sin_cm == Sqrt(Max0(Scale * Scale - mu_cm * mu_cm))
        u_prime == (sin_cm * Cos2Pi(Draw(rng, st.r + 2))) \div Scale
        v_prime == (sin_cm * Sin2Pi(Draw(rng, st.r + 2))) \div Scale
        w_prime == mu_cm
    IN [vec_Vn_prime |-> <<(magnitude * u_prime) \div Scale, (magnitude * v_prime) \div Scale,
                           (magnitude * w_prime) \div Scale>>,
        mu_cm |-> mu_cm, st |-> Pos(st.r + 2, st.v)]

\* lines 87-105 / 145-158: back to the lab frame, final energy and lab cosine
LabResult(vec_Vn_prime, vec_vcm, mu_cm, st) ==
    LET vec_vn_prime == [a \in 1..3 |-> vec_Vn_prime[a] + vec_vcm[a]]
        vn_prime_speed_sq == Dot(vec_vn_prime, vec_vn_prime)
        E_prime == vn_prime_speed_sq \div SpeedSqPerMeV
        vn_prime_speed == Sqrt(vn_prime_speed_sq)
        mu_lab == IF vn_prime_speed > 0
                  THEN (vec_vn_prime[3] * Scale) \div vn_prime_speed
                  ELSE Scale
    IN [E_prime |-> E_prime, mu_cm |-> mu_cm, mu_lab |-> mu_lab, st |-> st]

\* lines 74-105
elastic_scattering(initial_energy, A, sampler, rng, st) ==
    LET k == get_vectors_and_vcm(initial_energy, A, sampler, rng, st)
        Vn_speed == Norm(k.vec_Vn)
        sc == scatter_isotropic_cm(k.vec_Vn, Vn_speed, rng, k.st)
    IN LabResult(sc.vec_Vn_prime, k.vec_vcm, sc.mu_cm, sc.st)

\* lines 117-126: the kinetic energy available in the CM frame
Total_KE_cm(k, A) ==
    LET Vn_speed == Norm(k.vec_Vn)
        E_n_cm == (Vn_speed * Vn_speed) \div SpeedSqPerMeV
    IN (E_n_cm * (A + 1)) \div A

\* lines 107-158
inelastic_scattering(initial_energy, A, Q_value, sampler, rng, st) ==
    LET k == get_vectors_and_vcm(initial_energy, A, sampler, rng, st)
    IN IF Total_KE_cm(k, A) <= Q_value
       THEN elastic_scattering(initial_energy, A, sampler, rng, k.st)
       ELSE LET Total_KE_cm_prime == Total_KE_cm(k, A) - Q_value
                E_n_cm_prime == (Total_KE_cm_prime * A) \div (A + 1)
                Vn_prime_speed == Sqrt(E_n_cm_prime * SpeedSqPerMeV)
                sc == scatter_isotropic_cm(k.vec_Vn, Vn_prime_speed, rng, k.st)
            IN LabResult(sc.vec_Vn_prime, k.vec_vcm, sc.mu_cm, sc.st)

(***************************************************************************)
(* The files and arguments the reader is called on.                        *)
(***************************************************************************)
MaxE == 4
MaxLen == 3

XsValues == {0, 2, 3}
Energies == 0..(MaxE + 1)

\* Energy grids: ascending, positive, not empty.
Grids ==
    {g \in UNION {[1..n -> 1..MaxE] : n \in 1..MaxLen} :
        \A i \in 1..(Len(g) - 1) : g[i] < g[i + 1]}

XsArrays == UNION {[1..n -> XsValues] : n \in 1..MaxLen}

\* A file with one reaction (MT=2) on its own grid (grid and values of equal
\* length) or on the global grid with a threshold index.
LocalGridFiles ==
    {File(TRUE, FALSE, <<>>, Group(TRUE, g, TRUE, x, 0), Absent, Absent) :
        <<g, x>> \in {gx \in Grids \X XsArrays : Len(gx[1]) = Len(gx[2])}}

GlobalGridFiles ==
    {File(TRUE, TRUE, g, Group(FALSE, <<>>, TRUE, x, t), Absent, Absent) :
        <<g, x, t>> \in Grids \X XsArrays \X (0..(MaxLen + 1))}

GridFiles == LocalGridFiles \cup GlobalGridFiles

\* Files with the three reactions of get_cross_sections, each absent, sound
\* or damaged.
LocalOK == Group(TRUE, <<1, 3>>, TRUE, <<2, 5>>, 0)
GlobalOK == Group(FALSE, <<>>, TRUE, <<3, 1>>, 1)
NoXs == Group(FALSE, <<>>, FALSE, <<>>, 0)
LocalEmpty == Group(TRUE, <<>>, TRUE, <<>>, 0)
LocalUneven == Group(TRUE, <<1, 3>>, TRUE, <<2>>, 0)
LocalNegative == Group(TRUE, <<1, 3>>, TRUE, <<-1, -1>>, 0)

GroupCatalog == {Absent, LocalOK, GlobalOK, NoXs, LocalEmpty, LocalUneven, LocalNegative}

NoFile == File(FALSE, FALSE, <<>>, Absent, Absent, Absent)

CatalogFiles ==
    {NoFile} \cup
    {File(TRUE, hg, IF hg THEN <<1, 2, 4>> ELSE <<>>, a, b, c) :
        <<hg, a, b, c>> \in BOOLEAN \X GroupCatalog \X GroupCatalog \X GroupCatalog}

Elements == {"Pb208", "U235", "Pb-208"}
MTs == {0, 2, 18, 102, 1000}
Densities == {1, 2}

NoCall == [op |-> "idle", element |-> "", mt |-> 0, energy |-> 0, number_density |-> 0]

XIdle ==
    /\ xfile = NoFile
    /\ xcall = NoCall
    /\ xret = Ok(Zero)

NoScatter == [op |-> "idle"]

PIdle ==
    /\ pcall = NoScatter
    /\ pret = <<>>

\* reader.get_cross_section(element, mt, energy)
GetCrossSection(elements, mts) ==
    /\ xcall.op = "idle"
    /\ \E element \in elements, mt \in mts, energy \in Energies :
        /\ xcall' = [op |-> "get_cross_section", element |-> element, mt |-> mt,
                     energy |-> energy, number_density |-> 0]
        /\ xret' = get_cross_section(xfile, element, mt, energy)
    /\ UNCHANGED <<xfile, gvars, pvars>>

\* reader.get_cross_sections(element, energy, sampler, number_density)
GetCrossSections ==
    /\ xcall.op = "idle"
    /\ \E element \in Elements, energy \in Energies, number_density \in Densities :
        /\ xcall' = [op |-> "get_cross_sections", element |-> element, mt |-> 0,
                     energy |-> energy, number_density |-> number_density]
        /\ xret' = get_cross_sections(xfile, element, energy, number_density)
    /\ UNCHANGED <<xfile, gvars, pvars>>

(***************************************************************************)
(* The scattering calls.                                                   *)
(***************************************************************************)
RngPeriod == 3
SamplerPeriod == 2

Draws == {0, 1, 2, 3}
SampleSpeeds == {0, 220}
ScatterEnergies == {5000, ThermalCutoff, 20000}
MassRatios == {1, 12}
QValues == {1000, 30000}

RngStreams == [1..RngPeriod -> Draws]
SamplerStreams == [1..SamplerPeriod -> SampleSpeeds]

\* elastic_scattering(initial_energy, A, sampler, rng)
ElasticScattering ==
    /\ pcall.op = "idle"
    /\ \E initial_energy \in ScatterEnergies, A \in MassRatios,
          sampler \in SamplerStreams, rng \in RngStreams :
          /\ pcall' = [op |-> "elastic", initial_energy |-> initial_energy, A |-> A,
                       Q_value |-> 0, sampler |-> sampler, rng |-> rng]
          /\ pret' = elastic_scattering(initial_energy, A, sampler, rng, Pos(0, 0))
    /\ UNCHANGED <<gvars, xvars>>

\* inelastic_scattering(initial_energy, A, Q_value, sampler, rng)
InelasticScattering ==
    /\ pcall.op = "idle"
    /\ \E initial_energy \in ScatterEnergies, A \in MassRatios, Q_value \in QValues,
          sampler \in SamplerStreams, rng \in RngStreams :
          /\ pcall' = [op |-> "inelastic", initial_energy |-> initial_energy, A |-> A,
                       Q_value |-> Q_value, sampler |-> sampler, rng |-> rng]
          /\ pret' = inelastic_scattering(initial_energy, A, Q_value, sampler, rng, Pos(0, 0))
    /\ UNCHANGED <<gvars, xvars>>

InitPhys == GeomIdle /\ XIdle /\ PIdle

NextPhys ==
    \/ ElasticScattering
    \/ InelasticScattering

SpecPhys == InitPhys /\ [][NextPhys]_vars

\* Calls of calculate_nearest_boundary.
InitGeom == GeomIdle /\ XIdle /\ PIdle

NextGeom ==
    \/ CallNearest
    \/ EnterRegion
    \/ VisitSurface
    \/ LeaveRegion
    \/ ReturnNearest

SpecGeom == InitGeom /\ [][NextGeom]_vars

\* Lookups of one reaction over all grids.
InitXS ==
    /\ GeomIdle
    /\ PIdle
    /\ xfile \in GridFiles
    /\ xcall = NoCall
    /\ xret = Ok(Zero)

NextXS == GetCrossSection({"Pb208"}, {2, 18})

SpecXS == InitXS /\ [][NextXS]_vars

\* All calls of the reader over sound and damaged files.
InitXSTotal ==
    /\ GeomIdle
    /\ PIdle
    /\ xfile \in CatalogFiles
    /\ xcall = NoCall
    /\ xret = Ok(Zero)

NextXSTotal ==
    \/ GetCrossSection(Elements, MTs)
    \/ GetCrossSections

SpecXSTotal == InitXSTotal /\ [][NextXSTotal]_vars

(***************************************************************************)
(* Properties of calculate_nearest_boundary.                               *)
(***************************************************************************)
Min(S) == CHOOSE m \in S : \A n \in S : m <= n

\* The leaf primitives of a region, to any depth.
RECURSIVE Leaves(_)
Leaves(r) ==
    UNION {IF r.surfaces[i].kind = "region" THEN Leaves(r.surfaces[i]) ELSE {r.surfaces[i]} :
           i \in 1..Len(r.surfaces)}

\* The valid candidates of a call: <<i, t>> where some primitive of regions[i]
\* is met at distance t >= 0 and the hit point lies in regions[i].
ValidCandidates(rs, p, d) ==
    {c \in (1..Len(rs)) \X (0..(2 * MaxCoord + 2)) :
        \E s \in Leaves(rs[c[1]]) :
            /\ nearest_surface_method(s, p, d) = Num(c[2])
            /\ contains(rs[c[1]], Along(p, d, c[2]))}

ValidDistances(rs, p, d) == {c[2] : c \in ValidCandidates(rs, p, d)}

AxisAligned(d) == Cardinality({a \in 1..3 : d[a] # 0}) = 1

\* The first point of the ray inside the solid box: the box's own nearest
\* intersection for a particle that starts outside it.
BoxEntry(b, p, d) ==
    LET ts == {t \in 0..(2 * MaxCoord + 2) : contains(b, Along(p, d, t))}
    IN IF ts = {} THEN None ELSE Num(Min(ts))

SingleBoxCall ==
    /\ Len(regions) = 1
    /\ Len(regions[1].surfaces) = 1
    /\ regions[1].surfaces[1] \in {BoxA, BoxB}
    /\ ~contains(regions[1].surfaces[1], state)
    /\ AxisAligned(dir)
    /\ BoxEntry(regions[1].surfaces[1], state, dir) # None

\* C1: for a wrapper region holding a single box and a particle outside the
\* box moving inward along one axis, the call on the wrapper returns the
\* box's own hit point and distance, and the region returned is the wrapper
\* that was passed in, not the nested box.
C1_NestedWrapper ==
    (gpc = "done" /\ SingleBoxCall) =>
        LET box == regions[1].surfaces[1]
            t == BoxEntry(box, state, dir)
        IN /\ gret[3] = t
           /\ gret[1] = Along(state, dir, t.v)
           /\ gret[2] = regions[1]
           /\ gret[2].name = "Wrapper"
           /\ gret[2] # box

C1_Witness ==
    /\ gpc = "done"
    /\ SingleBoxCall
    /\ state = <<-1, 1, 1>>
    /\ dir = <<1, 0, 0>>
    /\ gret = <<(<<0, 1, 1>>), Wrapper, Num(1)>>

\* C2: the distance returned is the minimum over all regions of the list and
\* all primitives of the flattened region of the distances that are not None,
\* are >= 0 (0 included) and whose hit point is contained in the top-level
\* region; the point returned is that hit point and the region returned is a
\* top-level region that has a candidate at that distance.
C2_MinimumValid ==
    (gpc = "done" /\ ValidDistances(regions, state, dir) # {}) =>
        LET m == Min(ValidDistances(regions, state, dir))
        IN /\ gret[3] = Num(m)
           /\ gret[1] = Along(state, dir, m)
           /\ \E c \in ValidCandidates(regions, state, dir) :
                 c[2] = m /\ gret[2] = regions[c[1]]

\* A call over two regions whose result lies beyond a nearer primitive hit
\* that the containment test of its region rejected.
C2_Witness ==
    /\ gpc = "done"
    /\ Len(regions) = 2
    /\ gret[3] # Inf
    /\ \E i \in 1..Len(regions) : \E s \in Leaves(regions[i]) :
          LET t == nearest_surface_method(s, state, dir)
          IN /\ t # None /\ t.v >= 0 /\ t.v < gret[3].v
             /\ ~contains(regions[i], Along(state, dir, t.v))

\* C3: the escape sentinel (no point, no region, infinite distance) is
\* returned exactly when no primitive of any region yields a valid contained
\* candidate, the empty region list included; otherwise the point and region
\* are not None and the distance is finite.
C3_EscapeSentinel ==
    gpc = "done" =>
        /\ (gret = <<NoPoint, NoRegion, Inf>>) <=> (ValidDistances(regions, state, dir) = {})
        /\ ValidDistances(regions, state, dir) # {} =>
              /\ gret[1] # NoPoint
              /\ gret[2] # NoRegion
              /\ gret[3].k = "num"

\* An escape although primitives were met behind the particle or outside
\* their region.
C3_Witness ==
    /\ gpc = "done"
    /\ gret = <<NoPoint, NoRegion, Inf>>
    /\ regions # <<>>
    /\ \E i \in 1..Len(regions) : \E s \in Leaves(regions[i]) :
          nearest_surface_method(s, state, dir) # None

\* The regions list in another order.
Reorder(rs, f) == [i \in 1..Len(rs) |-> rs[f[i]]]

\* The regions that have a valid candidate at distance m, by list index.
RegionsAt(m) == {c[1] : c \in {v \in ValidCandidates(regions, state, dir) : v[2] = m}}

\* The primitives of the flattened list of regions[i] met at distance m, by
\* index in the flattened list.
PrimitivesAt(i, m) ==
    LET prims == get_primitive_surfaces(regions[i].surfaces)
    IN {j \in 1..Len(prims) : nearest_surface_method(prims[j], state, dir) = Num(m)}

\* C11: when several candidates share the minimal valid distance, the region
\* returned is the one met first in iteration order (first region of the
\* list that has a candidate at that distance, and within it the first
\* primitive of the flattened list), since a later candidate replaces the
\* current one only on a strictly smaller distance; the distance returned
\* is the same for every order of the regions list.
C11_FirstMetWins ==
    (gpc = "done" /\ ValidDistances(regions, state, dir) # {}) =>
        LET m == Min(ValidDistances(regions, state, dir))
            first == Min(RegionsAt(m))
            prims == get_primitive_surfaces(regions[first].surfaces)
        IN /\ gret[2] = regions[first]
           /\ nearest_surface = prims[Min(PrimitivesAt(first, m))]
           /\ gret = calculate_nearest_boundary(state, regions, dir)
           /\ \A f \in Permutations(1..Len(regions)) :
                 calculate_nearest_boundary(state, Reorder(regions, f), dir)[3] = gret[3]

\* Two different regions tie at the minimal distance, two primitives of the
\* first region tie as well, the first region is returned and the call on
\* the reversed list returns the other region at the same distance.
C11_Witness ==
    /\ gpc = "done"
    /\ Len(regions) = 2
    /\ regions[1] # regions[2]
    /\ ValidDistances(regions, state, dir) # {}
    /\ LET m == Min(ValidDistances(regions, state, dir))
           swapped == calculate_nearest_boundary(state, <<regions[2], regions[1]>>, dir)
       IN /\ RegionsAt(m) = {1, 2}
          /\ Cardinality(PrimitivesAt(1, m)) >= 2
          /\ gret[2] = regions[1]
          /\ swapped[2] = regions[2]
          /\ swapped[3] = gret[3]

(***************************************************************************)
(* Properties of CrossSectionReader.                                       *)
(***************************************************************************)
\* The reaction group a get_cross_section call on the stored element reads.
CalledGroup == ReactionGroup(xfile, xcall.mt)

LocalCall ==
    /\ xcall.op = "get_cross_section"
    /\ isalnum(xcall.element) /\ 1 <= xcall.mt /\ xcall.mt <= 999
    /\ path_exists(xfile, xcall.element)
    /\ CalledGroup.present
    /\ CalledGroup.has_energy

GlobalCall ==
    /\ xcall.op = "get_cross_section"
    /\ isalnum(xcall.element) /\ 1 <= xcall.mt /\ xcall.mt <= 999
    /\ path_exists(xfile, xcall.element)
    /\ CalledGroup.present
    /\ ~CalledGroup.has_energy

\* C4: on a reaction with its own grid (one value per grid energy, at least
\* one), a lookup strictly below the first or strictly above the last grid
\* energy returns exactly 0, a lookup at a grid energy returns the stored
\* value, and a lookup strictly between two adjacent grid energies returns
\* the linear interpolation of their stored values.
C4_LocalGridLookup ==
    (LocalCall /\ CalledGroup.has_xs /\ Len(CalledGroup.energy) >= 1
        /\ Len(CalledGroup.xs) = Len(CalledGroup.energy)) =>
        LET grid == CalledGroup.energy
            xs == CalledGroup.xs
            e == xcall.energy
        IN /\ xret.tag = "ok"
           /\ (e < grid[1] \/ e > grid[Len(grid)]) => xret.val.n = 0
           /\ \A i \in 1..Len(grid) : grid[i] = e => RatEq(xret.val, Exact(xs[i]))
           /\ \A i \in 1..(Len(grid) - 1) :
                 (grid[i] < e /\ e < grid[i + 1]) =>
                     /\ xret.val.e = 0
                     /\ xret.val.n * (grid[i + 1] - grid[i]) =
                            xret.val.d * (xs[i] * (grid[i + 1] - grid[i])
                                          + (xs[i + 1] - xs[i]) * (e - grid[i]))

\* A lookup strictly inside an interval whose interpolated value is not a
\* stored one, and the end points of that grid return non-zero values.
C4_Witness ==
    /\ LocalCall
    /\ xfile \in LocalGridFiles
    /\ Len(CalledGroup.energy) = 2
    /\ CalledGroup.energy[1] < xcall.energy
    /\ xcall.energy < CalledGroup.energy[2]
    /\ xret.tag = "ok"
    /\ xret.val.n % xret.val.d # 0

\* C5: on the global grid, whenever threshold_idx + len(xs) exceeds the
\* length of the global grid (threshold_idx at or past the end included),
\* the xs array is truncated so that the energy slice and the xs array have
\* equal length and lie inside the global grid, no index is read out of
\* bounds, and the largest energy of the slice is the last global-grid value.
C5_TruncationSafe ==
    (GlobalCall /\ xfile.has_global /\ CalledGroup.has_xs
        /\ CalledGroup.threshold_idx + Len(CalledGroup.xs) > Len(xfile.global_energy)) =>
        LET g == xfile.global_energy
            tx == TruncatedXs(g, CalledGroup.xs, CalledGroup.threshold_idx)
            re == RelevantEnergies(g, CalledGroup.xs, CalledGroup.threshold_idx)
        IN /\ Len(tx) = Len(re)
           /\ CalledGroup.threshold_idx + Len(tx) <= Len(g)
           /\ ~(xret.tag = "raise" /\ xret.exc = "IndexError")
           /\ re # <<>> /\ re[Len(re)] = g[Len(g)]

\* C6: when the file and the reaction group exist, the reaction has no local
\* grid and the global energy path is missing, the call raises the wrapped
\* read error carrying the element and the MT number; it returns no value.
C6_MissingGlobalGridRaises ==
    (GlobalCall /\ CalledGroup.has_xs /\ ~xfile.has_global) =>
        /\ xret.tag = "raise"
        /\ xret.exc = "RuntimeError"
        /\ \E i \in 1..Len(xret.msg) : xret.msg[i] = xcall.element
        /\ \E i \in 1..Len(xret.msg) : xret.msg[i] = ToString(xcall.mt)

\* The macroscopic value of a successful microscopic lookup.
MacroOf(r, number_density) ==
    IF r.val.n < 0 THEN Zero
    ELSE Rat(r.val.n * number_density, r.val.d, r.val.e - 24)

\* C9: get_cross_sections returns (Sigma_s, Sigma_a, Sigma_f, Sigma_t) with
\* Sigma_t the sum of the macroscopic values of MT=2, MT=102 and MT=18; when
\* the MT=18 lookup fails with any error the call still returns, with
\* Sigma_f = 0 and Sigma_t = Sigma_s + Sigma_a; a failure of the MT=2 or
\* MT=102 lookup is raised to the caller.
C9_TotalCrossSections ==
    xcall.op = "get_cross_sections" =>
        LET s == get_cross_section(xfile, xcall.element, 2, xcall.energy)
            a == get_cross_section(xfile, xcall.element, 102, xcall.energy)
            f == get_cross_section(xfile, xcall.element, 18, xcall.energy)
            N == xcall.number_density
        IN /\ s.tag = "raise" => xret = s
           /\ (s.tag = "ok" /\ a.tag = "raise") => xret = a
           /\ (s.tag = "ok" /\ a.tag = "ok") =>
                 /\ xret.tag = "ok"
                 /\ RatEq(xret.val[1], MacroOf(s, N))
                 /\ RatEq(xret.val[2], MacroOf(a, N))
                 /\ f.tag = "ok" =>
                       /\ RatEq(xret.val[3], MacroOf(f, N))
                       /\ RatEq(xret.val[4],
                                RatAdd(RatAdd(MacroOf(s, N), MacroOf(a, N)), MacroOf(f, N)))
                 /\ f.tag = "raise" =>
                       /\ xret.val[3].n = 0
                       /\ RatEq(xret.val[4], RatAdd(MacroOf(s, N), MacroOf(a, N)))

\* The fission lookup raises, scattering and capture are found and non-zero.
C9_Witness ==
    /\ xcall.op = "get_cross_sections"
    /\ get_cross_section(xfile, xcall.element, 18, xcall.energy).tag = "raise"
    /\ xret.tag = "ok"
    /\ xret.val[1].n > 0
    /\ xret.val[2].n > 0
    /\ xret.val[3].n = 0
    /\ xret.val[4].e = -24

\* C10: on the global grid the two ends of the reaction's energy slice are
\* treated differently: an energy strictly below the slice's first energy
\* (the global grid value at the threshold index) returns 0, an energy
\* strictly above the slice's last energy returns the xs value stored for
\* that last energy (clamped); on a local grid an energy above the last grid
\* energy returns 0.
C10_GlobalEndsAsymmetric ==
    /\ (GlobalCall /\ xfile.has_global /\ CalledGroup.has_xs) =>
          LET g == xfile.global_energy
              tx == TruncatedXs(g, CalledGroup.xs, CalledGroup.threshold_idx)
              re == RelevantEnergies(g, CalledGroup.xs, CalledGroup.threshold_idx)
          IN (re # <<>> /\ Len(tx) = Len(re)) =>
                /\ re[1] = g[CalledGroup.threshold_idx + 1]
                /\ xcall.energy < re[1] => xret = Ok(Zero)
                /\ xcall.energy > re[Len(re)] => xret = Ok(Exact(tx[Len(tx)]))
    /\ (LocalCall /\ CalledGroup.has_xs /\ Len(CalledGroup.energy) >= 1) =>
          (xcall.energy > CalledGroup.energy[Len(CalledGroup.energy)] => xret = Ok(Zero))

\* A lookup above the slice that returns a non-zero clamped value, on a slice
\* that starts past the first global energy.
C10_Witness ==
    /\ GlobalCall /\ xfile.has_global
    /\ CalledGroup.threshold_idx = 1
    /\ Len(CalledGroup.xs) = 2
    /\ Len(xfile.global_energy) = 3
    /\ xcall.energy > xfile.global_energy[3]
    /\ xret.tag = "ok"
    /\ xret.val.n > 0

(***************************************************************************)
(* Properties of the scattering kinematics.                                *)
(***************************************************************************)
\* The kinematics the call starts from, and whether Total_KE_cm <= Q.
CallKinematics ==
    get_vectors_and_vcm(pcall.initial_energy, pcall.A, pcall.sampler, pcall.rng, Pos(0, 0))

BelowThreshold == Total_KE_cm(CallKinematics, pcall.A) <= pcall.Q_value

DirectElastic ==
    elastic_scattering(pcall.initial_energy, pcall.A, pcall.sampler, pcall.rng, Pos(0, 0))

\* C7: when Total_KE_cm <= Q, inelastic_scattering started from a state of
\* the random stream and of the sampler returns the same (final_energy,
\* mu_cm, mu_lab) as elastic_scattering started from that state and reads
\* the same number of draws and of sampled speeds, above and at or below
\* the 10 eV cutoff.
C7_FallbackIsElastic ==
    (pcall.op = "inelastic" /\ BelowThreshold) => pret = DirectElastic

\* C8 as stated: every elastic call and every inelastic call that meets its
\* threshold reads exactly 2 draws of the injected random stream, at every
\* positive initial energy.
C8_TwoDrawsAtEveryEnergy ==
    (pcall.op = "elastic" \/ (pcall.op = "inelastic" /\ ~BelowThreshold)) =>
        pret.st.r = 2

\* C8 amended: such a call reads exactly 2 draws (CM polar cosine, CM
\* azimuth) when the initial energy is above 10 eV or the sampled target
\* speed is not positive, and exactly 4 (target polar cosine and azimuth,
\* then the two CM draws) when the energy is at or below 10 eV and the
\* sampled target speed is positive; the sampler is asked once at or below
\* 10 eV and not at all above.
C8_DrawsByRegime ==
    (pcall.op = "elastic" \/ (pcall.op = "inelastic" /\ ~BelowThreshold)) =>
        LET thermal == pcall.initial_energy <= ThermalCutoff
            moving == thermal /\ Draw(pcall.sampler, 1) > 0
        IN /\ pret.st.v = (IF thermal THEN 1 ELSE 0)
           /\ pret.st.r = (IF moving THEN 4 ELSE 2)

\* An inelastic call at the cutoff energy that meets its threshold with a
\* moving target.
C8_Witness ==
    /\ pcall.op = "inelastic"
    /\ ~BelowThreshold
    /\ pcall.initial_energy = ThermalCutoff
    /\ pret.st = Pos(4, 1)
    /\ pret.E_prime > 0

====
